---- MODULE Spec2Model ----
(***************************************************************************)
(* Model of magnet_bruxism_detection.                                      *)
(*                                                                         *)
(*   src/magnet_simulation.py   a script: synthesize readings, track the   *)
(*                              magnet by repeated minimisation, extract   *)
(*                              windowed features                          *)
(*   src/magnet_calibration.py  main(): sensor calibration, then the live  *)
(*                              tracking demo over a serial connection     *)
(*                                                                         *)
(* Lengths are in millimetres and field values in integer sensor units, so *)
(* the script's (0, 0, 0.01) m is <<0, 0, 10>> here.  Python's None is the *)
(* empty tuple for vectors and matrices; a record that may be None is a    *)
(* sequence of at most one record.                                         *)
(***************************************************************************)
EXTENDS Integers, Sequences, FiniteSets, TLC

VARIABLES
    pc,                   \* position of the running program
    \* ---- magnet_simulation.py ----
    magnet,               \* the module-level magpy Cuboid
    true_positions,       \* the motion path
    true_B,               \* fields without noise
    noisy_B,              \* the readings
    estimated_positions,  \* one entry appended per solve
    last_guess,           \* seed of the next solve
    result,               \* the last OptimizeResult (<<>> before any solve)
    B_idx,                \* number of readings the tracking loop has consumed
    solve_log,            \* history: the calls made to minimize, in order
    len_t,                \* len(t) in the feature loop
    feat_i,               \* loop variable i of the feature loop
    features,             \* one entry per window: the slice it was reduced from
    \* ---- magnet_calibration.py ----
    file,                 \* magnetometer_calibration.npz (<<>> when absent)
    offset,               \* main's offset (None or a 3-vector)
    matrix,               \* main's matrix (None or a 3x3 matrix)
    raw_data,             \* the collected batch (<<>> is None)
    ser_conn,             \* the calibration connection: "none", "open", "closed"
    ser,                  \* the tracking connection: "none", "open", "closed"
    reference_readings,   \* calibrated readings of the reference window
    reference_baseline,   \* their mean (<<>> before it is computed)
    field_delta,          \* the delta printed last (<<>> before the first)
    viz_args,             \* history: the arguments visualize_calibration got
    exit_kind,            \* how the run ended ("" while it runs)
    last_read             \* history: the line readline returned last, with a
                          \* bit that flips at every read (<<>> before any)

simVars == <<magnet, true_positions, true_B, noisy_B, estimated_positions,
             last_guess, result, B_idx, solve_log>>
featVars == <<len_t, feat_i, features>>
calVars == <<file, offset, matrix, raw_data, ser_conn, ser, reference_readings,
             reference_baseline, field_delta, viz_args, exit_kind, last_read>>
vars == <<pc, simVars, featVars, calVars>>

None == <<>>

\* ------------------------------------------------------------------------
\* Bounds and input sets
\* ------------------------------------------------------------------------
NumReadings == 3          \* len(t) in the tracking model
MaxWindows == 15          \* series lengths up to MaxWindows * window_size

\* magnet positions the path and the minimiser's trial points range over (mm)
PosGrid == {<<0, 0, 10>>, <<2, 2, 8>>}
\* lines 25-41: the path is a fixed function of time; the ones tried here are
\* the jaw at rest in the closed position and the jaw moving between two points
MotionPaths ==
    { [k \in 1..NumReadings |-> <<0, 0, 10>>],
      [k \in 1..NumReadings |-> IF k % 2 = 1 THEN <<0, 0, 10>> ELSE <<2, 2, 8>>],
      [k \in 1..NumReadings |-> <<2, 2, 8>>] }
\* sensor noise added to a reading
NoiseSet == {<<0, 0, 0>>, <<1, 0, 0>>}

\* ------------------------------------------------------------------------
\* Vector helpers
\* ------------------------------------------------------------------------
VecSub(a, b) == <<a[1] - b[1], a[2] - b[2], a[3] - b[3]>>
VecAdd(a, b) == <<a[1] + b[1], a[2] + b[2], a[3] + b[3]>>
SumSq(a) == a[1] * a[1] + a[2] * a[2] + a[3] * a[3]

\* ------------------------------------------------------------------------
\* magnet_simulation.py: magnet, sensor, forward field
\* ------------------------------------------------------------------------
sensor_pos == <<0, 0, 0>>

\* magnetization in units of 955000 A/m, dimension and position in mm
magnet0 == [magnetization |-> <<0, 0, 1>>,
            dimension |-> <<5, 5, 2>>,
            position |-> <<0, 0, 10>>]

\* magnet.getB(sensor_pos): the library's field of the cuboid at the sensor.
\* A deterministic function of the magnet's state and the sensor position
\* (a linear stand-in for the analytic cuboid field).
getB(mag, sensor) ==
    LET r == VecSub(sensor, mag.position)
        m == mag.magnetization[1] + mag.magnetization[2] + mag.magnetization[3]
    IN  <<m * r[1], m * r[2], m * r[3]>>

\* "magnet.position = pos": the assignment both loops make before getB
set_position(mag, pos) == [mag EXCEPT !.position = pos]

\* objective(pos, measured_B, sensor_pos, magnet): value returned
objective(pos, measured_B, sensor, mag) ==
    SumSq(VecSub(getB(set_position(mag, pos), sensor), measured_B))

maxiter == 2000
\* iteration counts a solve is observed to end with
NitChoices == {1, maxiter}

\* minimize(objective, x0, args, method='Nelder-Mead', options={'maxiter': m}):
\* the outcomes the library can produce.  The simplex search evaluates the
\* objective on a set T of trial points that contains x0, returns a best point
\* of T, stops after at most m iterations and reports success exactly when it
\* stopped before the budget ran out.  Every evaluation assigns magnet.position,
\* so the magnet is left at the point evaluated last.
minimize(x0, measured_B, sensor, mag, m) ==
    { [x |-> x, fun |-> objective(x, measured_B, sensor, mag),
       nit |-> n, success |-> (n < m),
       magnet |-> set_position(mag, last)] :
        <<x, last, n>> \in
            { <<x, last, n>> \in PosGrid \X PosGrid \X {k \in NitChoices : k <= m} :
                \E T \in SUBSET PosGrid :
                    /\ x0 \in T /\ x \in T /\ last \in T
                    /\ \A y \in T : objective(x, measured_B, sensor, mag)
                                      <= objective(y, measured_B, sensor, mag) } }

\* line 59
initial_guess == <<0, 0, 10>>

\* line 76: last_guess = result.x  (the _bad variant never updates the seed)
next_guess_bad(res_x, prior) == prior
next_guess(res_x, prior) == res_x

\* line 75: estimated_positions.append(result.x), whatever result.success is
\* (the _bad variant drops the estimate of a solve that did not converge)
append_estimate_bad(est, res) == IF res.success THEN Append(est, res.x) ELSE est
append_estimate(est, res) == Append(est, res.x)

InitSimVars ==
    /\ magnet = magnet0
    /\ true_positions \in MotionPaths
    /\ true_B = <<>>
    /\ noisy_B = <<>>
    /\ estimated_positions = <<>>
    /\ last_guess = None
    /\ result = <<>>
    /\ B_idx = 0
    /\ solve_log = <<>>

IdleFeatVars ==
    /\ len_t = 0
    /\ feat_i = 0
    /\ features = <<>>

IdleCalVars ==
    /\ file = <<>>
    /\ offset = None
    /\ matrix = None
    /\ raw_data = <<>>
    /\ ser_conn = "none"
    /\ ser = "none"
    /\ reference_readings = <<>>
    /\ reference_baseline = <<>>
    /\ field_delta = <<>>
    /\ viz_args = <<>>
    /\ exit_kind = ""
    /\ last_read = <<>>

InitSim ==
    /\ pc = "simulate"
    /\ InitSimVars
    /\ IdleFeatVars
    /\ IdleCalVars

\* lines 48-52: one pass of the loop that synthesizes the readings
Simulate ==
    /\ pc = "simulate"
    /\ Len(noisy_B) < Len(true_positions)
    /\ LET pos == true_positions[Len(noisy_B) + 1]
           mag == set_position(magnet, pos)
           B == getB(mag, sensor_pos)
       IN  /\ magnet' = mag
           /\ true_B' = Append(true_B, B)
           /\ \E noise \in NoiseSet : noisy_B' = Append(noisy_B, VecAdd(B, noise))
    /\ UNCHANGED <<pc, true_positions, estimated_positions, last_guess, result,
                   B_idx, solve_log, featVars, calVars>>

\* lines 54-59: the readings are complete; the tracking state is set up
StartEstimate ==
    /\ pc = "simulate"
    /\ Len(noisy_B) = Len(true_positions)
    /\ pc' = "estimate"
    /\ estimated_positions' = <<>>
    /\ last_guess' = initial_guess
    /\ UNCHANGED <<magnet, true_positions, true_B, noisy_B, result, B_idx,
                   solve_log, featVars, calVars>>

\* lines 67-76: one pass of the tracking loop
Solve ==
    /\ pc = "estimate"
    /\ B_idx < Len(noisy_B)
    /\ LET B_meas == noisy_B[B_idx + 1]
       IN  \E r \in minimize(last_guess, B_meas, sensor_pos, magnet, maxiter) :
            /\ result' = <<[x |-> r.x, fun |-> r.fun, nit |-> r.nit,
                            success |-> r.success]>>
            /\ magnet' = r.magnet
            /\ estimated_positions' = append_estimate(estimated_positions, r)
            /\ last_guess' = next_guess(r.x, last_guess)
            /\ solve_log' = Append(solve_log,
                   [seed |-> last_guess, measured |-> B_meas, x |-> r.x,
                    success |-> r.success])
    /\ B_idx' = B_idx + 1
    /\ UNCHANGED <<pc, true_positions, true_B, noisy_B, featVars, calVars>>

\* line 78: the loop is exhausted
EndEstimate ==
    /\ pc = "estimate"
    /\ B_idx = Len(noisy_B)
    /\ pc' = "tracked"
    /\ UNCHANGED <<simVars, featVars, calVars>>

NextSim == Simulate \/ StartEstimate \/ Solve \/ EndEstimate

SpecSim == InitSim /\ [][NextSim]_vars

\* The script is a single sequential thread: a step that can be taken is taken.
FairSpecSim == SpecSim /\ WF_vars(NextSim)

\* ------------------------------------------------------------------------
\* magnet_simulation.py: feature extraction (lines 82-114)
\* ------------------------------------------------------------------------
window_size == 50

\* line 91: the stop value of range(0, len(t) - window_size, window_size)
feature_range_stop(n, ws) == n - ws

Min(a, b) == IF a <= b THEN a ELSE b

\* noisy_B[i:i + ws] on an array of n rows: the rows i .. stop-1 (0-based)
slice(i, ws, n) == [start |-> Min(i, n), stop |-> Min(i + ws, n)]

IdleSimVars ==
    /\ magnet = magnet0
    /\ true_positions = <<>>
    /\ true_B = <<>>
    /\ noisy_B = <<>>
    /\ estimated_positions = <<>>
    /\ last_guess = None
    /\ result = <<>>
    /\ B_idx = 0
    /\ solve_log = <<>>

\* The feature loop reads t, noisy_B and true_positions only through their
\* common length and the rows of the current slice; the four values it appends
\* per pass are reductions of that slice, recorded here as the slice itself.
InitFeat ==
    /\ pc = "features"
    /\ len_t \in {window_size * k : k \in 1..MaxWindows}
    /\ feat_i = 0
    /\ features = <<>>
    /\ IdleSimVars
    /\ IdleCalVars

\* lines 91-114: one pass of the feature loop
FeatureWindow ==
    /\ pc = "features"
    /\ feat_i < feature_range_stop(len_t, window_size)
    /\ features' = Append(features, slice(feat_i, window_size, len_t))
    /\ feat_i' = feat_i + window_size
    /\ UNCHANGED <<pc, len_t, simVars, calVars>>

\* the range is exhausted
EndFeatures ==
    /\ pc = "features"
    /\ feat_i >= feature_range_stop(len_t, window_size)
    /\ pc' = "featured"
    /\ UNCHANGED <<featVars, simVars, calVars>>

NextFeat == FeatureWindow \/ EndFeatures

SpecFeat == InitFeat /\ [][NextFeat]_vars

\* ------------------------------------------------------------------------
\* magnet_calibration.py: numbers
\* ------------------------------------------------------------------------
\* Floating-point values are integers, plus NaN, which every operation
\* propagates.
NaN == -1000000
IsNaN(a) == a = NaN
fadd(a, b) == IF IsNaN(a) \/ IsNaN(b) THEN NaN ELSE a + b
fsub(a, b) == IF IsNaN(a) \/ IsNaN(b) THEN NaN ELSE a - b
fmul(a, b) == IF IsNaN(a) \/ IsNaN(b) THEN NaN ELSE a * b
\* np.sqrt of one entry (the inputs used are perfect squares or negative)
np_sqrt(a) == IF IsNaN(a) \/ a < 0 THEN NaN ELSE CHOOSE r \in 0..a : r * r = a

I3 == << <<1, 0, 0>>, <<0, 1, 0>>, <<0, 0, 1>> >>
Diag(d) == << <<d[1], 0, 0>>, <<0, d[2], 0>>, <<0, 0, d[3]>> >>
Transpose(A) == [i \in 1..3 |-> [j \in 1..3 |-> A[j][i]]]
MatMul(A, B) ==
    [i \in 1..3 |-> [j \in 1..3 |->
        fadd(fadd(fmul(A[i][1], B[1][j]), fmul(A[i][2], B[2][j])),
             fmul(A[i][3], B[3][j]))]]
\* row vector times matrix
VecMat(x, A) ==
    [j \in 1..3 |->
        fadd(fadd(fmul(x[1], A[1][j]), fmul(x[2], A[2][j])), fmul(x[3], A[3][j]))]
MatSqrt(A) == [i \in 1..3 |-> [j \in 1..3 |-> np_sqrt(A[i][j])]]

\* ------------------------------------------------------------------------
\* magnet_calibration.py: calibration fit (lines 58-90)
\* ------------------------------------------------------------------------
MaxSamples == 51          \* rows collected in one calibration sweep
MaxRefReadings == 2       \* readings captured in one reference window

min_samples == 50

\* A batch is described by what the fit reads of it: the number of rows n, the
\* per-axis minima lo and maxima hi, and v, the least-squares solution
\* np.linalg.lstsq returns for its centered rows.  The sweeps tried: a sphere,
\* an off-centre ellipsoid, rows confined to the plane x = 0 (the minimum-norm
\* solution has v[0] = 0) and rows that fit a hyperboloid (v[0] < 0).  All have
\* an axis-aligned quadratic form with ascending diagonal, for which
\* np.linalg.eigh returns the diagonal and the identity.
Sweeps ==
    { [lo |-> <<-1, -1, -1>>, hi |-> <<1, 1, 1>>, v |-> <<1, 1, 1, 0, 0, 0>>],
      [lo |-> <<1, 1, 1>>, hi |-> <<3, 3, 3>>, v |-> <<1, 4, 4, 0, 0, 0>>],
      [lo |-> <<0, -1, -1>>, hi |-> <<0, 1, 1>>, v |-> <<0, 1, 1, 0, 0, 0>>],
      [lo |-> <<-2, -2, -2>>, hi |-> <<2, 2, 2>>, v |-> <<-1, 1, 1, 0, 0, 0>>] }

\* line 61: data is None or len(data) < 50  (the _bad variant is off by one)
not_enough_data_bad(data) == data = <<>> \/ data[1].n < min_samples - 1
not_enough_data(data) == data = <<>> \/ data[1].n < min_samples

\* lines 66-67
hard_iron(d) == [i \in 1..3 |-> (d.hi[i] + d.lo[i]) \div 2]

\* line 78
quadratic_form(v) ==
    << <<v[1], v[4], v[5]>>, <<v[4], v[2], v[6]>>, <<v[5], v[6], v[3]>> >>

\* line 79, for a diagonal matrix with ascending diagonal
np_linalg_eigh(M) == [vals |-> <<M[1][1], M[2][2], M[3][3]>>, vecs |-> I3]

\* line 80
soft_iron(M) ==
    LET e == np_linalg_eigh(M)
    IN  MatMul(MatMul(e.vecs, MatSqrt(Diag(e.vals))), Transpose(e.vecs))

\* calculate_and_save_calibration(data) with the calibration file f: the pair
\* returned and the file afterwards
calculate_and_save_calibration(data, f) ==
    IF not_enough_data(data)
    THEN [offset |-> None, matrix |-> None, file |-> f]
    ELSE LET hard_iron_offset == hard_iron(data[1])
             soft_iron_matrix == soft_iron(quadratic_form(data[1].v))
         IN  [offset |-> hard_iron_offset, matrix |-> soft_iron_matrix,
              file |-> <<[offset |-> hard_iron_offset,
                          matrix |-> soft_iron_matrix]>>]

\* line 94: (raw_data - offset) @ matrix raises when offset or matrix is None
\* (TypeError when there are rows, ValueError from matmul when there are none)
visualize_raises(off, mat) == off = None \/ mat = None

\* ------------------------------------------------------------------------
\* magnet_calibration.py: serial lines
\* ------------------------------------------------------------------------
NumTok(x) == [num |-> TRUE, val |-> x]
JunkTok == [num |-> FALSE, val |-> 0]

\* What ser.readline() can deliver: bytes that are not UTF-8, nothing (the
\* timeout), and lines of comma-separated fields
Lines ==
    { [ok |-> FALSE, parts |-> <<>>],
      [ok |-> TRUE, parts |-> <<>>],
      [ok |-> TRUE, parts |-> <<NumTok(1), NumTok(2)>>],
      [ok |-> TRUE, parts |-> <<NumTok(2), JunkTok, NumTok(0)>>],
      [ok |-> TRUE, parts |-> <<NumTok(0), NumTok(0), NumTok(0)>>],
      [ok |-> TRUE, parts |-> <<NumTok(2), NumTok(0), NumTok(4)>>] }

\* lines 39-43, 132-136, 157-161: decode, strip, split, convert
parse_line(line) ==
    IF ~line.ok THEN [kind |-> "UnicodeDecodeError", value |-> None]
    ELSE IF line.parts = <<>> THEN [kind |-> "none", value |-> None]
    ELSE IF Len(line.parts) # 3 THEN [kind |-> "none", value |-> None]
    ELSE IF \E i \in 1..3 : ~line.parts[i].num
         THEN [kind |-> "ValueError", value |-> None]
    ELSE [kind |-> "reading",
          value |-> <<line.parts[1].val, line.parts[2].val, line.parts[3].val>>]

\* the record of one more call of ser.readline() that returned `line`
read_mark(line, prev) ==
    <<[line |-> line, tick |-> IF prev = <<>> THEN 0 ELSE 1 - prev[1].tick]>>

\* lines 108-110
apply_calibration(raw_reading, off, mat) == VecMat(VecSub(raw_reading, off), mat)

RECURSIVE ColumnSum(_, _)
ColumnSum(readings, i) ==
    IF readings = <<>> THEN 0
    ELSE fadd(readings[1][i], ColumnSum(Tail(readings), i))

\* np.mean(readings, axis=0), as the exact quotient num / den
np_mean(readings) ==
    IF readings = <<>> THEN [num |-> <<NaN, NaN, NaN>>, den |-> 1]
    ELSE [num |-> [i \in 1..3 |-> ColumnSum(readings, i)], den |-> Len(readings)]

\* line 167: calibrated_reading - reference_baseline, as a quotient
delta(calibrated, baseline) ==
    [num |-> [i \in 1..3 |-> fsub(fmul(calibrated[i], baseline.den), baseline.num[i])],
     den |-> baseline.den]

\* line 142: not reference_readings  (the _bad variant omits the test)
capture_failed_bad(readings) == FALSE
capture_failed(readings) == readings = <<>>

\* ------------------------------------------------------------------------
\* magnet_calibration.py: main (lines 182-216) and what it calls
\* ------------------------------------------------------------------------
\* a calibration file left by an earlier run
SavedFile == <<[offset |-> <<0, 0, 0>>, matrix |-> I3]>>

InitCal ==
    /\ pc = "main"
    /\ file \in {<<>>, SavedFile}
    /\ offset = None
    /\ matrix = None
    /\ raw_data = <<>>
    /\ ser_conn = "none"
    /\ ser = "none"
    /\ reference_readings = <<>>
    /\ reference_baseline = <<>>
    /\ field_delta = <<>>
    /\ viz_args = <<>>
    /\ exit_kind = ""
    /\ last_read = <<>>
    /\ IdleSimVars
    /\ IdleFeatVars

\* lines 184-196: load the saved parameters when the user accepts them
MainStart ==
    /\ pc = "main"
    /\ \E use_existing \in {"y", "n"} :
        IF file # <<>> /\ use_existing = "y"
        THEN /\ offset' = file[1].offset
             /\ matrix' = file[1].matrix
             /\ pc' = "check_params"
        ELSE /\ UNCHANGED <<offset, matrix>>
             /\ pc' = "collect_open"
    /\ UNCHANGED <<file, raw_data, ser_conn, ser, reference_readings,
                   reference_baseline, field_delta, viz_args, exit_kind,
                   last_read, simVars, featVars>>

\* lines 21-35: collect_calibration_data opens the port; the rows the sweep
\* will deliver have the statistics of one of Sweeps
CollectOpen ==
    /\ pc = "collect_open"
    /\ \/ /\ raw_data' = <<>>           \* SerialException: return None, None
          /\ ser_conn' = "none"
          /\ pc' = "calc"
       \/ /\ \E sw \in Sweeps :
                raw_data' = <<[n |-> 0, lo |-> sw.lo, hi |-> sw.hi, v |-> sw.v]>>
          /\ ser_conn' = "open"
          /\ pc' = "collecting"
    /\ UNCHANGED <<file, offset, matrix, ser, reference_readings,
                   reference_baseline, field_delta, viz_args, exit_kind,
                   last_read, simVars, featVars>>

\* lines 37-50: one pass of the collection loop; a line of three numbers adds
\* a row, any other line adds nothing
CollectRead ==
    /\ pc = "collecting"
    /\ \E line \in Lines :
        /\ last_read' = read_mark(line, last_read)
        /\ IF parse_line(line).kind = "reading"
           THEN /\ raw_data[1].n < MaxSamples
                /\ raw_data' = <<[raw_data[1] EXCEPT !.n = @ + 1]>>
           ELSE UNCHANGED raw_data
    /\ UNCHANGED <<pc, file, offset, matrix, ser_conn, ser, reference_readings,
                   reference_baseline, field_delta, viz_args, exit_kind,
                   simVars, featVars>>

\* lines 37, 55-56: the duration has elapsed
CollectTimeUp ==
    /\ pc = "collecting"
    /\ pc' = "calc"
    /\ UNCHANGED <<calVars, simVars, featVars>>

\* lines 51-56: Ctrl-C in the loop breaks out of it
CollectInterrupted ==
    /\ pc = "collecting"
    /\ pc' = "calc"
    /\ UNCHANGED <<calVars, simVars, featVars>>

\* line 39: readline raises SerialException, which nothing catches
CollectSerialError ==
    /\ pc = "collecting"
    /\ pc' = "crashed"
    /\ exit_kind' = "SerialException"
    /\ UNCHANGED <<file, offset, matrix, raw_data, ser_conn, ser,
                   reference_readings, reference_baseline, field_delta, viz_args,
                   last_read, simVars, featVars>>

\* lines 198-199
MainCalculate ==
    /\ pc = "calc"
    /\ IF raw_data = <<>>
       THEN /\ pc' = "close_cal"
            /\ UNCHANGED <<offset, matrix, file>>
       ELSE LET c == calculate_and_save_calibration(raw_data, file)
            IN  /\ offset' = c.offset
                /\ matrix' = c.matrix
                /\ file' = c.file
                /\ pc' = "visualize"
    /\ UNCHANGED <<raw_data, ser_conn, ser, reference_readings,
                   reference_baseline, field_delta, viz_args, exit_kind,
                   last_read, simVars, featVars>>

\* line 200: visualize_calibration(raw_data, offset, matrix)
MainVisualize ==
    /\ pc = "visualize"
    /\ viz_args' = <<[offset |-> offset, matrix |-> matrix]>>
    /\ IF visualize_raises(offset, matrix)
       THEN /\ pc' = "crashed"
            /\ exit_kind' = "visualize_raised"
       ELSE /\ pc' = "close_cal"
            /\ UNCHANGED exit_kind
    /\ UNCHANGED <<file, offset, matrix, raw_data, ser_conn, ser,
                   reference_readings, reference_baseline, field_delta,
                   last_read, simVars, featVars>>

\* lines 201-202
MainCloseCal ==
    /\ pc = "close_cal"
    /\ ser_conn' = IF ser_conn = "open" THEN "closed" ELSE ser_conn
    /\ pc' = "check_params"
    /\ UNCHANGED <<file, offset, matrix, raw_data, ser, reference_readings,
                   reference_baseline, field_delta, viz_args, exit_kind,
                   last_read, simVars, featVars>>

\* lines 204-206
MainCheckParams ==
    /\ pc = "check_params"
    /\ IF offset = None
       THEN /\ pc' = "done"
            /\ exit_kind' = "no_calibration"
       ELSE /\ pc' = "prompt_live"
            /\ UNCHANGED exit_kind
    /\ UNCHANGED <<file, offset, matrix, raw_data, ser_conn, ser,
                   reference_readings, reference_baseline, field_delta, viz_args,
                   last_read, simVars, featVars>>

\* lines 209-216 and 117-129: the prompt, the port, the start of the demo
MainPromptLive ==
    /\ pc = "prompt_live"
    /\ \/ /\ pc' = "done"               \* start_live # 'y'
          /\ exit_kind' = "declined"
          /\ UNCHANGED <<ser, reference_readings>>
       \/ /\ pc' = "done"               \* serial.Serial raises, caught line 215
          /\ exit_kind' = "open_failed"
          /\ UNCHANGED <<ser, reference_readings>>
       \/ /\ ser' = "open"
          /\ reference_readings' = <<>>
          /\ pc' = "ref_capture"
          /\ UNCHANGED exit_kind
    /\ UNCHANGED <<file, offset, matrix, raw_data, ser_conn, reference_baseline,
                   field_delta, viz_args, last_read, simVars, featVars>>

\* lines 130-140: one pass of the reference capture loop
RefRead ==
    /\ pc = "ref_capture"
    /\ \E line \in Lines :
        LET r == parse_line(line)
        IN  /\ last_read' = read_mark(line, last_read)
            /\ IF r.kind = "reading"
               THEN /\ Len(reference_readings) < MaxRefReadings
                    /\ reference_readings' =
                           Append(reference_readings,
                                  apply_calibration(r.value, offset, matrix))
               ELSE UNCHANGED reference_readings
    /\ UNCHANGED <<pc, file, offset, matrix, raw_data, ser_conn, ser,
                   reference_baseline, field_delta, viz_args, exit_kind,
                   simVars, featVars>>

\* line 132: readline raises SerialException; the loop does not catch it, main
\* does (line 215), and nothing closes the port
RefSerialError ==
    /\ pc = "ref_capture"
    /\ pc' = "done"
    /\ exit_kind' = "serial_error"
    /\ UNCHANGED <<file, offset, matrix, raw_data, ser_conn, ser,
                   reference_readings, reference_baseline, field_delta, viz_args,
                   last_read, simVars, featVars>>

\* lines 120, 130-140: Ctrl-C at the prompt or in the capture loop is caught
\* nowhere
RefInterrupted ==
    /\ pc = "ref_capture"
    /\ pc' = "crashed"
    /\ exit_kind' = "KeyboardInterrupt"
    /\ UNCHANGED <<file, offset, matrix, raw_data, ser_conn, ser,
                   reference_readings, reference_baseline, field_delta, viz_args,
                   last_read, simVars, featVars>>

\* lines 130, 142-153: the three seconds have elapsed
RefEnd ==
    /\ pc = "ref_capture"
    /\ IF capture_failed(reference_readings)
       THEN /\ pc' = "done"
            /\ exit_kind' = "reference_failed"
            /\ UNCHANGED reference_baseline
       ELSE /\ reference_baseline' = <<np_mean(reference_readings)>>
            /\ pc' = "tracking"
            /\ UNCHANGED exit_kind
    /\ UNCHANGED <<file, offset, matrix, raw_data, ser_conn, ser,
                   reference_readings, field_delta, viz_args, last_read, simVars, featVars>>

\* lines 155-171, 177-179: one pass of the tracking loop.  ValueError and
\* UnicodeDecodeError match no except clause: the finally block closes the
\* port and the exception leaves main.
TrackRead ==
    /\ pc = "tracking"
    /\ \E line \in Lines :
        LET r == parse_line(line)
        IN  /\ last_read' = read_mark(line, last_read)
            /\ CASE r.kind = "reading" ->
                    /\ field_delta' =
                         <<delta(apply_calibration(r.value, offset, matrix),
                                 reference_baseline[1])>>
                    /\ UNCHANGED <<pc, ser, exit_kind>>
              [] r.kind = "none" ->
                    UNCHANGED <<pc, ser, exit_kind, field_delta>>
              [] OTHER ->
                    /\ ser' = "closed"
                    /\ pc' = "crashed"
                    /\ exit_kind' = r.kind
                    /\ UNCHANGED field_delta
    /\ UNCHANGED <<file, offset, matrix, raw_data, ser_conn, reference_readings,
                   reference_baseline, viz_args, simVars, featVars>>

\* lines 173-174, 177-179
TrackInterrupted ==
    /\ pc = "tracking"
    /\ ser' = "closed"
    /\ pc' = "done"
    /\ exit_kind' = "stopped"
    /\ UNCHANGED <<file, offset, matrix, raw_data, ser_conn, reference_readings,
                   reference_baseline, field_delta, viz_args, last_read, simVars, featVars>>

\* lines 175-179
TrackSerialError ==
    /\ pc = "tracking"
    /\ ser' = "closed"
    /\ pc' = "done"
    /\ exit_kind' = "disconnected"
    /\ UNCHANGED <<file, offset, matrix, raw_data, ser_conn, reference_readings,
                   reference_baseline, field_delta, viz_args, last_read, simVars, featVars>>

NextCal ==
    \/ MainStart \/ CollectOpen \/ CollectRead \/ CollectTimeUp
    \/ CollectInterrupted \/ CollectSerialError \/ MainCalculate
    \/ MainVisualize \/ MainCloseCal \/ MainCheckParams \/ MainPromptLive
    \/ RefRead \/ RefSerialError \/ RefInterrupted \/ RefEnd
    \/ TrackRead \/ TrackInterrupted \/ TrackSerialError

SpecCal == InitCal /\ [][NextCal]_vars

\* ------------------------------------------------------------------------
\* Claims about magnet_simulation.py
\* ------------------------------------------------------------------------

\* C1: the first solve is seeded with (0, 0, 0.01) m and every later solve is
\* seeded with exactly the estimate the solve before it returned.
C1_WarmStart ==
    \A k \in 1..Len(solve_log) :
        /\ k = 1 => solve_log[k].seed = <<0, 0, 10>>
        /\ k > 1 => /\ solve_log[k].seed = solve_log[k - 1].x
                    /\ solve_log[k].seed = estimated_positions[k - 1]

\* a later solve was seeded with an estimate that differs from the default
C1_Witness ==
    /\ Len(solve_log) >= 2
    /\ solve_log[2].seed # <<0, 0, 10>>
    /\ solve_log[2].seed = estimated_positions[1]

\* The convergence indicators the session still holds: estimated_positions
\* keeps result.x alone, so only the indicator of the solve made last, in
\* `result`, can still be read.
KeptIndicators ==
    IF result = <<>> THEN {}
    ELSE {[solve |-> B_idx, success |-> result[1].success, nit |-> result[1].nit]}

\* C2: every estimate the session holds has its convergence indicator kept
\* with it, and an estimate of a solve that ran out of budget is marked as not
\* converged.
C2_IndicatorKept ==
    \A k \in 1..Len(estimated_positions) :
        \E q \in KeptIndicators : q.solve = k /\ q.success = solve_log[k].success

\* C3: the tracking loop terminates with exactly one estimate per reading, in
\* reading order, whether or not the solves converged, and no solve exceeds
\* the budget of 2000 iterations.
C3_Done ==
    /\ pc = "tracked"
    /\ Len(estimated_positions) = Len(noisy_B)
    /\ Len(solve_log) = Len(noisy_B)
    /\ \A k \in 1..Len(noisy_B) :
        /\ solve_log[k].measured = noisy_B[k]
        /\ solve_log[k].x = estimated_positions[k]

C3_Terminates ==
    /\ <>[]C3_Done
    /\ [](result # <<>> => result[1].nit <= 2000)

\* the session completed although a solve exhausted its budget
C3_Witness ==
    /\ C3_Done
    /\ Len(noisy_B) >= 2
    /\ \E k \in 1..Len(solve_log) : ~solve_log[k].success
    /\ result[1].nit = 2000

\* C8: no field evaluation changes the magnet model (magnetization, dimension
\* or stored position): the magnet is the same before and after every pass of
\* the synthesis loop and every solve.
C8_MagnetUnchanged == [][magnet' = magnet]_vars

\* The number of windows that hold sample s (0-based)
WindowsHolding(s) ==
    Cardinality({k \in 1..Len(features) :
                    features[k].start <= s /\ s < features[k].stop})

\* C9: when the loop has ended on a series whose length is a multiple of
\* window_size, the windows are consecutive slices of exactly window_size
\* samples, every sample is in exactly one window and there are
\* len / window_size of them.
C9_WindowsPartition ==
    pc = "featured" =>
        /\ Len(features) = len_t \div window_size
        /\ \A k \in 1..Len(features) :
            /\ features[k].start = (k - 1) * window_size
            /\ features[k].stop = k * window_size
        /\ \A s \in 0..(len_t - 1) : WindowsHolding(s) = 1

\* ------------------------------------------------------------------------
\* Claims about magnet_calibration.py
\* ------------------------------------------------------------------------

\* C4: a fit whose quadratic-form matrix has a non-positive eigenvalue returns
\* no offset and no transform and leaves the calibration file as it was.
C4_DegenerateFitRejected ==
    [][ ( /\ pc = "calc"
          /\ raw_data # <<>>
          /\ \E i \in 1..3 : raw_data[1].v[i] <= 0 )
        => ( offset' = None /\ matrix' = None /\ file' = file ) ]_vars

\* C5: a fit on an absent batch or on fewer than 50 samples returns no offset
\* and no transform and leaves the calibration file as it was; a fit on 50 or
\* more samples returns both.
C5_InsufficientData ==
    [][ /\ LET c == calculate_and_save_calibration(<<>>, file)
           IN  c.offset = <<>> /\ c.matrix = <<>> /\ c.file = file
        /\ ( pc = "calc" /\ raw_data # <<>> ) =>
              IF raw_data[1].n < 50
              THEN offset' = <<>> /\ matrix' = <<>> /\ file' = file
              ELSE offset' # <<>> /\ matrix' # <<>> ]_vars

\* a fit on 49 samples has returned nothing and an existing file is untouched
C5_Witness ==
    /\ pc = "visualize"
    /\ raw_data # <<>>
    /\ raw_data[1].n = 49
    /\ offset = <<>>
    /\ file = SavedFile

\* C6: a failed calibration ends the run through the "could not obtain
\* calibration parameters" exit; visualization is never called with absent
\* parameters, and live tracking is reached only with parameters that were
\* loaded or fitted from a non-degenerate batch.
C6_FailedCalibrationAborts ==
    /\ viz_args # <<>> => viz_args[1].offset # <<>> /\ viz_args[1].matrix # <<>>
    /\ ( pc \in {"done", "crashed"} /\ offset = <<>>
         /\ exit_kind # "SerialException" ) => exit_kind = "no_calibration"
    /\ pc \in {"prompt_live", "ref_capture", "tracking"} =>
          /\ offset # <<>>
          /\ matrix # <<>>
          /\ raw_data # <<>> => \A i \in 1..3 : raw_data[1].v[i] > 0

\* C7, the sum of column i of the readings, computed apart from np_mean
RECURSIVE PlainSum(_, _)
PlainSum(readings, i) ==
    IF readings = <<>> THEN 0 ELSE readings[1][i] + PlainSum(Tail(readings), i)

IsMeanOf(b, readings) ==
    /\ b.den = Len(readings)
    /\ \A i \in 1..3 :
        IF \E k \in 1..Len(readings) : readings[k][i] = NaN
        THEN b.num[i] = NaN
        ELSE b.num[i] = PlainSum(readings, i)

\* C7: a session whose reference window held no valid sample ends with the
\* reference-capture failure and produces no field delta; tracking and every
\* field delta come after a baseline that is the mean of all (at least one)
\* readings captured in the window.
C7_ReferenceBaseline ==
    /\ exit_kind = "reference_failed" =>
          /\ pc = "done"
          /\ reference_readings = <<>>
          /\ reference_baseline = <<>>
          /\ field_delta = <<>>
    /\ ( pc = "tracking" \/ field_delta # <<>>
         \/ exit_kind \in {"stopped", "disconnected", "ValueError",
                           "UnicodeDecodeError"} ) =>
          /\ exit_kind # "reference_failed"
          /\ Len(reference_readings) >= 1
          /\ reference_baseline # <<>>
    /\ reference_baseline # <<>> =>
          /\ Len(reference_readings) >= 1
          /\ IsMeanOf(reference_baseline[1], reference_readings)

\* a field delta was produced against the mean of two different readings
C7_Witness ==
    /\ field_delta # <<>>
    /\ Len(reference_readings) = 2
    /\ reference_readings[1] # reference_readings[2]
    /\ reference_baseline # <<>>
    /\ reference_baseline[1].den = 2

\* C10: however a live tracking session ends, the serial connection opened
\* for it is closed.
C10_SerialClosedAtEnd ==
    ( pc \in {"done", "crashed"} /\ ser # "none" ) => ser = "closed"

\* C11: in the collection, reference capture and tracking loops, a line read
\* that does not decode and parse as exactly three numbers is discarded: the
\* step that reads it leaves the loop running (same position, no exit, port as
\* it was) and adds no row, no reference reading and no field delta.
C11_BadLineDiscarded ==
    [][ ( /\ last_read' # last_read
          /\ parse_line(last_read'[1].line).kind # "reading" )
        => ( /\ pc' = pc
             /\ exit_kind' = exit_kind
             /\ ser' = ser
             /\ raw_data' = raw_data
             /\ reference_readings' = reference_readings
             /\ field_delta' = field_delta ) ]_vars

====
